---- MODULE Spec2Model ----
(***************************************************************************)
(* Model of arnulf, a parser of the Test Anything Protocol, version 14.    *)
(*                                                                         *)
(*   src/src/parsing.rs  the line grammar (nom, complete parsers) and the  *)
(*                       test point assembler                              *)
(*   src/src/lib.rs      the version handshake (Parser::new), the result   *)
(*                       stream (ResultStream::poll_next) and its own      *)
(*                       streaming grammar                                 *)
(*                                                                         *)
(* Text is a sequence of one-character strings.  A parser result is a      *)
(* record [tag, rem, val]: tag is "Ok", "Error" (nom::Err::Error),         *)
(* "Incomplete" (nom::Err::Incomplete) or "Panic" (the function unwound);  *)
(* rem is the remaining slice and val the parsed value.  Option<T> is a    *)
(* sequence of length 0 (None) or 1 (Some).                                *)
(***************************************************************************)
EXTENDS Integers, Sequences, FiniteSets, TLC

VARIABLES
    rule,       \* grammar harness: the rule under test
    input,      \* grammar harness: the slice handed to the rule
    parts,      \* grammar harness: the pieces the slice was built from
    result,     \* grammar harness: what the rule returned
    pc,         \* grammar harness: "call" before the rule ran, "return" after
    srcHeader,  \* the bytes the source holds before the test points
    srcBody,    \* the bytes the source holds after the header
    cut,        \* the offset at which the split run's source splits the body
    chunks,     \* per run: the reads the source has still to deliver
    avail,      \* per run: the bytes delivered and not yet read
    closed,     \* per run: the source has signalled end-of-input
    fault,      \* per run: "none", "raised" (an I/O error awaits the reader), "reported"
    phase,      \* per run: where the program is
    buffer,     \* per run: ResultStream::buffer
    items,      \* per run: the items poll_next has yielded
    polls,      \* per run: what each poll_next call returned
    waker,      \* per run: the source holds the task's waker
    woken       \* per run: the task is scheduled to poll

gvars == <<rule, input, parts, result, pc>>
svars == <<srcHeader, srcBody, cut, chunks, avail, closed, fault, phase, buffer, items, polls,
           waker, woken>>
vars == <<gvars, svars>>

(***************************************************************************)
(* Text helpers                                                            *)
(***************************************************************************)
None == <<>>
Some(x) == <<x>>

Drop(s, n) == SubSeq(s, n + 1, Len(s))
Take(s, n) == SubSeq(s, 1, n)

Contains(s, c) == \E i \in 1..Len(s) : s[i] = c

StartsWith(s, t) == Len(s) >= Len(t) /\ Take(s, Len(t)) = t

\* str::find: the index (from 0) of the first occurrence of t in s, or -1
FindSubstring(s, t) ==
    LET hits == {i \in 0..(Len(s) - Len(t)) : SubSeq(s, i + 1, i + Len(t)) = t}
    IN  IF hits = {} THEN -1 ELSE CHOOSE i \in hits : \A j \in hits : i <= j

\* the number of leading characters of s that lie in the set cs
PrefixLen(s, cs) ==
    LET stops == {i \in 1..Len(s) : s[i] \notin cs}
    IN  IF stops = {} THEN Len(s) ELSE (CHOOSE i \in stops : \A j \in stops : i <= j) - 1

\* the number of trailing characters of s that lie in the set cs
SuffixLen(s, cs) ==
    LET stops == {i \in 1..Len(s) : s[i] \notin cs}
    IN  IF stops = {} THEN Len(s) ELSE Len(s) - (CHOOSE i \in stops : \A j \in stops : i >= j)

SpaceChars == {" ", "\t"}
\* char::is_whitespace, on the characters the model uses
WhitespaceChars == {" ", "\t", "\n", "\r"}
DigitChars == {"0", "1", "2", "3", "4", "5", "6", "7", "8", "9"}

\* str::trim
Trim(s) ==
    LET a == PrefixLen(s, WhitespaceChars)
    IN  IF a = Len(s) THEN <<>>
        ELSE SubSeq(s, a + 1, Len(s) - SuffixLen(s, WhitespaceChars))

Upper == [c \in {"t", "o", "d", "s", "k", "i", "p"} |->
            CASE c = "t" -> "T" [] c = "o" -> "O" [] c = "d" -> "D" [] c = "s" -> "S"
              [] c = "k" -> "K" [] c = "i" -> "I" [] c = "p" -> "P"]

\* char::to_lowercase, on the characters the model uses
LowerChar(c) ==
    IF \E l \in DOMAIN Upper : Upper[l] = c
    THEN CHOOSE l \in DOMAIN Upper : Upper[l] = c
    ELSE c

\* str::to_lowercase
ToLowercase(s) == [i \in 1..Len(s) |-> LowerChar(s[i])]

(***************************************************************************)
(* nom results and combinators                                             *)
(***************************************************************************)
Ok(rem, val) == [tag |-> "Ok", rem |-> rem, val |-> val]
Error == [tag |-> "Error", rem |-> <<>>, val |-> <<>>]
Incomplete == [tag |-> "Incomplete", rem |-> <<>>, val |-> <<>>]
Panic == [tag |-> "Panic", rem |-> <<>>, val |-> <<>>]
NoResult == [tag |-> "None", rem |-> <<>>, val |-> <<>>]

\* nom::bytes::complete::tag
tag(t, s) == IF StartsWith(s, t) THEN Ok(Drop(s, Len(t)), t) ELSE Error

\* tag_no_case comparing the letters as they are
tag_no_case_exact(t, s) == tag(t, s)

\* nom::bytes::complete::tag_no_case
tag_no_case(t, s) ==
    IF Len(s) >= Len(t) /\ ToLowercase(Take(s, Len(t))) = ToLowercase(t)
    THEN Ok(Drop(s, Len(t)), Take(s, Len(t)))
    ELSE Error

\* nom::character::complete::space0 / space1
space0(s) == LET n == PrefixLen(s, SpaceChars) IN Ok(Drop(s, n), Take(s, n))
space1(s) == LET n == PrefixLen(s, SpaceChars) IN IF n = 0 THEN Error ELSE Ok(Drop(s, n), Take(s, n))

\* nom::character::complete::digit1
digit1(s) == LET n == PrefixLen(s, DigitChars) IN IF n = 0 THEN Error ELSE Ok(Drop(s, n), Take(s, n))

\* nom::character::complete::newline
newline(s) == IF Len(s) >= 1 /\ s[1] = "\n" THEN Ok(Drop(s, 1), "\n") ELSE Error

\* nom::bytes::complete::take_until / take_until1
take_until(t, s) ==
    LET i == FindSubstring(s, t) IN IF i = -1 THEN Error ELSE Ok(Drop(s, i), Take(s, i))
take_until1(t, s) ==
    LET i == FindSubstring(s, t) IN IF i = -1 \/ i = 0 THEN Error ELSE Ok(Drop(s, i), Take(s, i))

\* nom::bytes::complete::take_while(|c| !c.is_whitespace())
take_while_not_whitespace(s) ==
    LET n == PrefixLen(s, {s[i] : i \in 1..Len(s)} \ WhitespaceChars)
    IN  Ok(Drop(s, n), Take(s, n))

\* nom::combinator::rest
rest(s) == Ok(<<>>, s)

\* nom::combinator::opt applied to the result r of the inner parser on s
opt(r, s) ==
    CASE r.tag = "Ok" -> Ok(r.rem, Some(r.val))
      [] r.tag = "Error" -> Ok(s, None)
      [] OTHER -> r

\* nom::branch::alt over two parsers: a is the result of the first and b of the
\* second on the same slice; only Err::Error falls through to the second
alt(a, b) == IF a.tag = "Error" THEN b ELSE a

\* sequencing (the ? operator, preceded, tuple): K continues from the result r
\* of the parser before it; anything but Ok is returned as it is
Then(r, K(_)) == IF r.tag = "Ok" THEN K(r) ELSE r

\* nom::bytes::streaming::tag: a slice that is a proper prefix of the tag is
\* Incomplete, a slice that differs from it in a character both have is Error
streaming_tag(t, s) ==
    CASE StartsWith(s, t) -> Ok(Drop(s, Len(t)), t)
      [] Len(s) < Len(t) /\ Take(t, Len(s)) = s -> Incomplete
      [] OTHER -> Error

\* nom::character::streaming::digit1: a slice of digits alone is Incomplete
streaming_digit1(s) ==
    CASE PrefixLen(s, DigitChars) = Len(s) -> Incomplete
      [] PrefixLen(s, DigitChars) = 0 -> Error
      [] OTHER -> Ok(Drop(s, PrefixLen(s, DigitChars)), Take(s, PrefixLen(s, DigitChars)))

\* nom::bytes::streaming::take_until: Incomplete while t has not arrived
streaming_take_until(t, s) ==
    IF FindSubstring(s, t) = -1 THEN Incomplete
    ELSE Ok(Drop(s, FindSubstring(s, t)), Take(s, FindSubstring(s, t)))

\* nom::bytes::streaming::take_till1 with the predicate "c is in cs"
streaming_take_till1(cs, s) ==
    CASE PrefixLen(s, {s[i] : i \in 1..Len(s)} \ cs) = Len(s) -> Incomplete
      [] PrefixLen(s, {s[i] : i \in 1..Len(s)} \ cs) = 0 -> Error
      [] OTHER -> Ok(Drop(s, PrefixLen(s, {s[i] : i \in 1..Len(s)} \ cs)),
                     Take(s, PrefixLen(s, {s[i] : i \in 1..Len(s)} \ cs)))

(***************************************************************************)
(* src/src/parsing.rs: the line grammar                                    *)
(***************************************************************************)
\* parse_description without the trim of the captured text
parse_description_untrimmed(s) ==
    Then(opt(tag(<<" ", "-">>, s), s), LAMBDA prefix :
    Then(space1(prefix.rem), LAMBDA sp :
    Then(alt(take_until1(<<" ", "#">>, sp.rem), take_until1(<<"\n">>, sp.rem)), LAMBDA description :
    Ok(description.rem, description.val))))

parse_description(s) ==
    Then(opt(tag(<<" ", "-">>, s), s), LAMBDA prefix :
    Then(space1(prefix.rem), LAMBDA sp :
    Then(alt(take_until1(<<" ", "#">>, sp.rem), take_until1(<<"\n">>, sp.rem)), LAMBDA description :
    Ok(description.rem, Trim(description.val)))))

\* str::parse::<usize>, on a non-empty run of decimal digits: the digits with
\* the leading zeros removed stand for the value (usize is 64 bits wide, so a
\* value above 18446744073709551615 is Err(PosOverflow))
UsizeMaxDigits ==
    <<"1", "8", "4", "4", "6", "7", "4", "4", "0", "7",
      "3", "7", "0", "9", "5", "5", "1", "6", "1", "5">>

DigitVal(c) == CHOOSE v \in 0..9 : <<"0", "1", "2", "3", "4", "5", "6", "7", "8", "9">>[v + 1] = c

StripZeros(ds) ==
    LET z == PrefixLen(ds, {"0"}) IN IF z = Len(ds) THEN <<"0">> ELSE Drop(ds, z)

\* whether the digit run ds denotes a value above the one max denotes
ExceedsMax(ds, max) ==
    LET n == StripZeros(ds)
        diff == {i \in 1..Len(n) : Len(n) = Len(max) /\ n[i] # max[i]}
    IN  \/ Len(n) > Len(max)
        \/ /\ diff # {}
           /\ LET i == CHOOSE k \in diff : \A j \in diff : k <= j
              IN  DigitVal(n[i]) > DigitVal(max[i])

parse_usize(ds) ==
    IF ExceedsMax(ds, UsizeMaxDigits) THEN [ok |-> FALSE, val |-> <<>>]
    ELSE [ok |-> TRUE, val |-> StripZeros(ds)]

\* str::parse::<u32>
U32MaxDigits == <<"4", "2", "9", "4", "9", "6", "7", "2", "9", "5">>

parse_u32(ds) ==
    IF ExceedsMax(ds, U32MaxDigits) THEN [ok |-> FALSE, val |-> <<>>]
    ELSE [ok |-> TRUE, val |-> StripZeros(ds)]

parse_test_count(s) ==
    Then(tag(<<"1", ".", ".">>, s), LAMBDA prefix : digit1(prefix.rem))

\* count.parse().expect(..) unwinds when the digits are no u32
parse_plan(s) ==
    Then(parse_test_count(s), LAMBDA count :
    IF parse_u32(count.val).ok THEN Ok(count.rem, parse_u32(count.val).val) ELSE Panic)

Todo(reason) == [kind |-> "Todo", reason |-> reason]
Skip(reason) == [kind |-> "Skip", reason |-> reason]

parse_directive(s) ==
    Then(tag(<<" ", "#">>, s), LAMBDA p1 :
    Then(space0(p1.rem), LAMBDA p2 :
    Then(alt(tag_no_case(<<"t", "o", "d", "o">>, p2.rem),
             tag_no_case(<<"s", "k", "i", "p">>, p2.rem)), LAMBDA directive :
    Then(take_while_not_whitespace(directive.rem), LAMBDA p4 :
    Then(space0(p4.rem), LAMBDA p5 :
    Then(take_until(<<"\n">>, p5.rem), LAMBDA reason :
    Ok(reason.rem,
       IF ToLowercase(directive.val) = <<"t", "o", "d", "o">>
       THEN Todo(IF Trim(reason.val) = <<>> THEN None ELSE Some(Trim(reason.val)))
       ELSE Skip(IF Trim(reason.val) = <<>> THEN None ELSE Some(Trim(reason.val))))))))))

parse_status(s) ==
    Then(alt(tag(<<"o", "k">>, s), tag(<<"n", "o", "t", " ", "o", "k">>, s)), LAMBDA status :
    Ok(status.rem, status.val = <<"o", "k">>))

\* num.parse().expect(..) unwinds when the digits are no usize
parse_test_number(s) ==
    Then(space1(s), LAMBDA sp :
    Then(digit1(sp.rem), LAMBDA num :
    IF parse_usize(num.val).ok THEN Ok(num.rem, parse_usize(num.val).val) ELSE Panic))

YamlOpen == <<" ", " ", "-", "-", "-", "\n">>
YamlClose == <<" ", " ", ".", ".", ".", "\n">>

\* delimited(tag("  ---\n"), rest, tag("  ...\n"))
parse_yaml(s) ==
    Then(tag(YamlOpen, s), LAMBDA open :
    Then(rest(open.rem), LAMBDA body :
    Then(tag(YamlClose, body.rem), LAMBDA close :
    Ok(close.rem, body.val))))

TestPoint(status, test_number, description, directive, yaml) ==
    [status |-> status, test_number |-> test_number, description |-> description,
     directive |-> directive, yaml |-> yaml]

parse_test_point(s) ==
    Then(parse_status(s), LAMBDA status :
    Then(opt(parse_test_number(status.rem), status.rem), LAMBDA test_number :
    Then(opt(parse_description(test_number.rem), test_number.rem), LAMBDA description :
    Then(opt(parse_directive(description.rem), description.rem), LAMBDA directive :
    Then(newline(directive.rem), LAMBDA nl :
    Then(opt(parse_yaml(nl.rem), nl.rem), LAMBDA yaml :
    Ok(yaml.rem,
       TestPoint(status.val, test_number.val, description.val, directive.val, yaml.val))))))))

\* nom::multi::many1(parse_test_point), after the first element: the loop ends
\* at the first Err::Error, and on an element that consumed nothing
RECURSIVE many1_loop(_, _)
many1_loop(i, acc) ==
    LET r == parse_test_point(i)
    IN  CASE r.tag = "Error" -> Ok(i, acc)
          [] r.tag = "Ok" -> IF Len(r.rem) = Len(i) THEN Error
                             ELSE many1_loop(r.rem, Append(acc, r.val))
          [] OTHER -> r

parse_test_points(s) ==
    Then(parse_test_point(s), LAMBDA first : many1_loop(first.rem, <<first.val>>))

(***************************************************************************)
(* src/src/lib.rs: the version handshake and the result stream             *)
(***************************************************************************)
VersionLine == <<"T", "A", "P", " ", "V", "e", "r", "s", "i", "o", "n", " ", "1", "4", "\n">>

\* parse_version accepting any header that starts with "TAP Version 1"
lib_parse_version_any_minor(s) == streaming_tag(Take(VersionLine, 13), s)

\* lib.rs parse_version
lib_parse_version(s) == streaming_tag(VersionLine, s)

\* lib.rs parse_number
lib_parse_number(s) == streaming_digit1(s)

\* lib.rs parse_test_point: status, a space and a number, then todo!()
lib_parse_test_point(s) ==
    Then(alt(streaming_tag(<<"o", "k">>, s), streaming_tag(<<"n", "o", "t", " ", "o", "k">>, s)),
         LAMBDA status :
    Then(streaming_tag(<<" ">>, status.rem), LAMBDA sp :
    Then(lib_parse_number(sp.rem), LAMBDA test_number :
    Panic)))

\* lib.rs parse_yaml: the closing marker is looked for and left in place
lib_parse_yaml(s) ==
    Then(streaming_tag(YamlOpen, s), LAMBDA open : streaming_take_until(YamlClose, open.rem))

\* lib.rs parse_description: the prefix is matched, then take_till1 runs on
\* the slice the function was given
lib_parse_description(s) ==
    Then(alt(streaming_tag(<<" ", "-", " ">>, s), streaming_tag(<<" ">>, s)), LAMBDA prefix :
    streaming_take_till1({"#", "\n"}, s))

\* AsyncBufReadExt::read_line on the bytes that will arrive: the bytes up to
\* and including the first "\n", or all of them when there is none
read_line(bytes) ==
    IF FindSubstring(bytes, <<"\n">>) = -1 THEN bytes
    ELSE Take(bytes, FindSubstring(bytes, <<"\n">>) + 1)

Ready(n) == [poll |-> "Ready", n |-> n]
ReadErr == [poll |-> "Err", n |-> 0]
ReadPending == [poll |-> "Pending", n |-> 0]

\* poll_for_read returning as soon as one read has brought bytes, instead of
\* reading to the end of the source
poll_for_read_one_chunk(bytes, eof, err) ==
    CASE Len(bytes) > 0 -> Ready(Len(bytes))
      [] err -> ReadErr
      [] eof -> Ready(0)
      [] OTHER -> ReadPending

\* poll_for_read: one poll of a fresh read_to_end future.  The bytes that have
\* arrived are appended to the buffer in every case; the future is Ready only
\* at the end of the source, with the number of bytes this future appended.
poll_for_read(bytes, eof, err) ==
    CASE err -> ReadErr
      [] eof -> Ready(Len(bytes))
      [] OTHER -> ReadPending

IoError == [kind |-> "Err", err |-> "Io"]

\* what poll_next returns, from the result of the read and of the parse of the
\* buffer: "Pending", "Item" (Ready(Some(..))) or "Panic" (a todo!())
poll_next_outcome(read, parsed) ==
    CASE read.poll = "Pending" -> "Pending"
      [] read.poll = "Err" -> "Item"
      [] read.n = 0 -> "Panic"
      [] parsed.tag = "Incomplete" -> "Pending"
      [] OTHER -> "Panic"

Runs == {"whole", "split"}

(***************************************************************************)
(* The grammar harness: a rule of the grammar applied to a slice.  The     *)
(* slices are every text over a small alphabet (description) or are put    *)
(* together from the pieces of the wire format (the other rules).          *)
(***************************************************************************)
MaxDescLen == 6
MaxSpaces == 2

DescAlphabet == {" ", "-", "#", "a", "\n"}

RECURSIVE Strings(_, _)
Strings(cs, n) ==
    IF n = 0 THEN {<<>>}
    ELSE LET shorter == Strings(cs, n - 1)
         IN  shorter \cup {Append(s, c) : s \in {t \in shorter : Len(t) = n - 1}, c \in cs}

Spaces(n) == [i \in 1..n |-> " "]

DescriptionInputs == Strings(DescAlphabet, MaxDescLen)

\* the pieces of a directive: " #", spaces, keyword, noise, spaces, reason, spaces, "\n"
Keywords == {<<"t", "o", "d", "o">>, <<"s", "k", "i", "p">>}
Noises == {<<>>, <<":">>, <<"P", "E", "D", ":">>}
Reasons == {<<>>, <<"r">>, <<"r", " ", "x">>}

\* the keyword kw with the letters at the positions of mask in upper case
Cased(kw, mask) == [i \in 1..Len(kw) |-> IF i \in mask THEN Upper[kw[i]] ELSE kw[i]]

DirectiveParts ==
    [sp1 : 0..MaxSpaces, kw : Keywords, mask : SUBSET (1..4), noise : Noises,
     sp2 : 0..MaxSpaces, reason : Reasons, sp3 : 0..MaxSpaces]

DirectiveText(p) ==
    <<" ", "#">> \o Spaces(p.sp1) \o Cased(p.kw, p.mask) \o p.noise
        \o Spaces(p.sp2) \o p.reason \o Spaces(p.sp3) \o <<"\n">>

\* the pieces of a test point line: status, number, description, directive, "\n"
StatusTexts == {<<"o", "k">>, <<"n", "o", "t", " ", "o", "k">>}
NumberTexts == {<<>>, <<" ", "3">>}
DescTexts == {<<>>, <<" ", "-", " ", "a">>, <<" ", "b">>}
DirTexts == {<<>>, <<" ", "#", " ", "t", "o", "d", "o">>, <<" ", "#", "S", "K", "I", "P", " ", "r">>}

LineParts == [status : StatusTexts, number : NumberTexts, desc : DescTexts, dir : DirTexts]

LineText(p) == p.status \o p.number \o p.desc \o p.dir \o <<"\n">>

\* the interior of a YAML block, or no block at all
YamlInteriors == {<<>>, <<"a", "\n">>, <<" ", " ", "k", ":", " ", "v", "\n">>}
YamlParts == {None} \cup {Some(y) : y \in YamlInteriors}
TailTexts == {<<>>, <<"o", "k", "\n">>}

PointParts == [line : LineParts, yaml : YamlParts, tail : TailTexts]

PointText(p) ==
    LineText(p.line)
        \o (IF p.yaml = None THEN <<>> ELSE YamlOpen \o p.yaml[1] \o YamlClose)
        \o p.tail

\* digit runs around the largest usize
DigitRuns ==
    {[UsizeMaxDigits EXCEPT ![i] = d] : i \in 1..Len(UsizeMaxDigits), d \in DigitChars}
        \cup {<<"0">> \o UsizeMaxDigits, UsizeMaxDigits \o <<"0">>,
              <<"3">>, <<"0">>, <<"0", "0", "7">>}

NumberParts == [digits : DigitRuns, tail : {<<>>, <<"\n">>, <<" ", "a", "\n">>}]

NumberText(p) == <<" ">> \o p.digits \o p.tail

\* digit runs around the largest u32, in a plan line
PlanDigitRuns ==
    {[U32MaxDigits EXCEPT ![i] = d] : i \in 1..Len(U32MaxDigits), d \in DigitChars}
        \cup {<<"0">> \o U32MaxDigits, U32MaxDigits \o <<"0">>, <<"3">>}

PlanParts == [digits : PlanDigitRuns, tail : {<<>>, <<"\n">>}]

PlanText(p) == <<"1", ".", ".">> \o p.digits \o p.tail

\* a YAML block and what follows it
BlockParts == [yaml : YamlInteriors, tail : TailTexts]

BlockText(p) == YamlOpen \o p.yaml \o YamlClose \o p.tail

InitDescription ==
    /\ rule = "description"
    /\ input \in DescriptionInputs
    /\ parts = <<>>

InitLibDescription ==
    /\ rule = "lib_description"
    /\ input \in DescriptionInputs
    /\ parts = <<>>

InitLibYaml ==
    /\ rule = "lib_yaml"
    /\ parts \in BlockParts
    /\ input = BlockText(parts)

InitPlan ==
    /\ rule = "plan"
    /\ parts \in PlanParts
    /\ input = PlanText(parts)

InitDirective ==
    /\ rule = "directive"
    /\ parts \in DirectiveParts
    /\ input = DirectiveText(parts)

InitTestNumber ==
    /\ rule = "test_number"
    /\ parts \in NumberParts
    /\ input = NumberText(parts)

InitTestPoint ==
    /\ rule = "test_point"
    /\ parts \in PointParts
    /\ input = PointText(parts)

InitTestPoints ==
    /\ rule = "test_points"
    /\ parts \in LineParts \X LineParts
    /\ input = LineText(parts[1]) \o LineText(parts[2])

\* the stream takes no part in the grammar harness
StreamIdle ==
    /\ srcHeader = <<>> /\ srcBody = <<>> /\ cut = 0
    /\ chunks = <<>> /\ avail = <<>> /\ closed = <<>> /\ fault = <<>>
    /\ phase = <<>> /\ buffer = <<>> /\ items = <<>> /\ polls = <<>>
    /\ waker = <<>> /\ woken = <<>>

GrammarInit ==
    /\ StreamIdle
    /\ \/ InitDescription
       \/ InitLibDescription
       \/ InitLibYaml
       \/ InitPlan
       \/ InitDirective
       \/ InitTestNumber
       \/ InitTestPoint
       \/ InitTestPoints
    /\ result = NoResult
    /\ pc = "call"

CallDescription ==
    /\ pc = "call" /\ rule = "description"
    /\ result' = parse_description(input)
    /\ pc' = "return"
    /\ UNCHANGED <<rule, input, parts, svars>>

CallDirective ==
    /\ pc = "call" /\ rule = "directive"
    /\ result' = parse_directive(input)
    /\ pc' = "return"
    /\ UNCHANGED <<rule, input, parts, svars>>

CallTestNumber ==
    /\ pc = "call" /\ rule = "test_number"
    /\ result' = parse_test_number(input)
    /\ pc' = "return"
    /\ UNCHANGED <<rule, input, parts, svars>>

CallTestPoint ==
    /\ pc = "call" /\ rule = "test_point"
    /\ result' = parse_test_point(input)
    /\ pc' = "return"
    /\ UNCHANGED <<rule, input, parts, svars>>

CallTestPoints ==
    /\ pc = "call" /\ rule = "test_points"
    /\ result' = parse_test_points(input)
    /\ pc' = "return"
    /\ UNCHANGED <<rule, input, parts, svars>>

CallLibDescription ==
    /\ pc = "call" /\ rule = "lib_description"
    /\ result' = lib_parse_description(input)
    /\ pc' = "return"
    /\ UNCHANGED <<rule, input, parts, svars>>

CallLibYaml ==
    /\ pc = "call" /\ rule = "lib_yaml"
    /\ result' = lib_parse_yaml(input)
    /\ pc' = "return"
    /\ UNCHANGED <<rule, input, parts, svars>>

CallPlan ==
    /\ pc = "call" /\ rule = "plan"
    /\ result' = parse_plan(input)
    /\ pc' = "return"
    /\ UNCHANGED <<rule, input, parts, svars>>

GrammarNext ==
    \/ CallDescription
    \/ CallLibDescription
    \/ CallLibYaml
    \/ CallPlan
    \/ CallDirective
    \/ CallTestNumber
    \/ CallTestPoint
    \/ CallTestPoints

Grammar == GrammarInit /\ [][GrammarNext]_vars

Returned(r) == pc = "return" /\ rule = r
(***************************************************************************)
(* The stream: a source that delivers header and body in reads, closes and *)
(* may fail; a task that runs Parser::new, test_results and then polls the *)
(* ResultStream.  Two runs on the same bytes go side by side: in "whole"    *)
(* the source delivers them in one read, in "split" it splits the body at   *)
(* the offset cut.                                                         *)
(***************************************************************************)
OkLine == <<"o", "k", "\n">>

\* streams of well-formed test point lines
ValidBodies ==
    {OkLine,
     <<"o", "k", " ", "1", "\n">>,
     <<"n", "o", "t", " ", "o", "k", " ", "2", "\n">>,
     <<"o", "k", " ", "-", " ", "a", "\n">>,
     <<"o", "k", " ", "1", "\n", "o", "k", " ", "2", "\n">>}

\* streams that end inside a test point
TruncatedBodies ==
    {<<"o", "k", " ", "3", " ", "-", " ", "d", "e", "s", "c">>,
     <<"o", "k", " ", "3">>,
     <<"o", "k">>,
     <<"n", "o", "t", " ", "o">>}

Bodies == ValidBodies \cup TruncatedBodies \cup {<<>>}

\* the version line, and headers that differ from it in one place
Headers ==
    {VersionLine, [VersionLine EXCEPT ![14] = "3"]}
        \cup {[VersionLine EXCEPT ![i] = "x"] : i \in 1..Len(VersionLine)}
        \cup {Take(VersionLine, n) : n \in 0..(Len(VersionLine) - 1)}

NonEmpty(cs) == SelectSeq(cs, LAMBDA c : c # <<>>)

SourceReads(r) ==
    IF r = "whole" THEN NonEmpty(<<srcHeader \o srcBody>>)
    ELSE NonEmpty(<<srcHeader \o Take(srcBody, cut), Drop(srcBody, cut)>>)

StreamInit ==
    /\ rule = "none" /\ input = <<>> /\ parts = <<>> /\ result = NoResult /\ pc = "idle"
    /\ srcHeader \in Headers
    /\ srcBody \in (IF srcHeader = VersionLine THEN Bodies ELSE {<<>>, OkLine})
    /\ cut \in (IF srcHeader = VersionLine THEN 0..Len(srcBody) ELSE {0})
    /\ chunks = [r \in Runs |-> SourceReads(r)]
    /\ avail = [r \in Runs |-> <<>>]
    /\ closed = [r \in Runs |-> FALSE]
    /\ fault = [r \in Runs |-> "none"]
    /\ phase = [r \in Runs |-> "new"]
    /\ buffer = [r \in Runs |-> <<>>]
    /\ items = [r \in Runs |-> <<>>]
    /\ polls = [r \in Runs |-> <<>>]
    /\ waker = [r \in Runs |-> FALSE]
    /\ woken = [r \in Runs |-> TRUE]

\* the run is over: Parser::new returned Err or unwound, or poll_next unwound
Over(r) == phase[r] \in {"new_err", "new_panic", "poll_panic"}

\* a source event wakes the task whose waker the source holds
Wake(r) ==
    /\ woken' = [woken EXCEPT ![r] = woken[r] \/ waker[r]]
    /\ waker' = [waker EXCEPT ![r] = FALSE]

\* the source delivers its next read
SourceDeliver(r) ==
    /\ ~Over(r) /\ ~closed[r] /\ chunks[r] # <<>>
    /\ avail' = [avail EXCEPT ![r] = avail[r] \o Head(chunks[r])]
    /\ chunks' = [chunks EXCEPT ![r] = Tail(chunks[r])]
    /\ Wake(r)
    /\ UNCHANGED <<gvars, srcHeader, srcBody, cut, closed, fault, phase, buffer, items, polls>>

\* the source signals end-of-input
SourceClose(r) ==
    /\ ~Over(r) /\ ~closed[r] /\ chunks[r] = <<>>
    /\ closed' = [closed EXCEPT ![r] = TRUE]
    /\ Wake(r)
    /\ UNCHANGED <<gvars, srcHeader, srcBody, cut, chunks, avail, fault, phase, buffer, items, polls>>

\* a read of the source fails
SourceError(r) ==
    /\ ~Over(r) /\ ~closed[r] /\ fault[r] = "none"
    /\ fault' = [fault EXCEPT ![r] = "raised"]
    /\ Wake(r)
    /\ UNCHANGED <<gvars, srcHeader, srcBody, cut, chunks, avail, closed, phase, buffer, items, polls>>

\* Parser::new: read_line completes with a line, at end-of-input or with an
\* error (returned by ?); parse_version(..).unwrap() unwinds unless it is Ok
New(r) ==
    /\ phase[r] = "new"
    /\ Contains(avail[r], "\n") \/ fault[r] = "raised" \/ closed[r]
    /\ IF ~Contains(avail[r], "\n") /\ fault[r] = "raised"
       THEN /\ phase' = [phase EXCEPT ![r] = "new_err"]
            /\ fault' = [fault EXCEPT ![r] = "reported"]
            /\ UNCHANGED avail
       ELSE /\ phase' = [phase EXCEPT ![r] =
                    IF lib_parse_version(read_line(avail[r])).tag = "Ok"
                    THEN "parser" ELSE "new_panic"]
            /\ avail' = [avail EXCEPT ![r] = Drop(avail[r], Len(read_line(avail[r])))]
            /\ UNCHANGED fault
    /\ UNCHANGED <<gvars, srcHeader, srcBody, cut, chunks, closed, buffer, items, polls,
                   waker, woken>>

\* Parser::test_results
TestResults(r) ==
    /\ phase[r] = "parser"
    /\ phase' = [phase EXCEPT ![r] = "stream"]
    /\ buffer' = [buffer EXCEPT ![r] = <<>>]
    /\ UNCHANGED <<gvars, srcHeader, srcBody, cut, chunks, avail, closed, fault, items, polls,
                   waker, woken>>

\* ResultStream::poll_next, called by the task when it is scheduled (at first,
\* after an item, and when the source wakes it).  The bytes of the model are
\* ASCII, so from_utf8(..).expect(..) succeeds.
PollNext(r) ==
    /\ phase[r] = "stream" /\ woken[r]
    /\ LET read == poll_for_read(avail[r], closed[r], fault[r] = "raised")
           read_buffer == buffer[r] \o avail[r]
           parsed == lib_parse_test_point(read_buffer)
           outcome == poll_next_outcome(read, parsed)
       IN  /\ buffer' = [buffer EXCEPT ![r] =
                   IF read.poll = "Ready" /\ read.n > 0 /\ parsed.tag = "Ok"
                   THEN parsed.rem ELSE read_buffer]
           /\ avail' = [avail EXCEPT ![r] = <<>>]
           /\ fault' = [fault EXCEPT ![r] = IF read.poll = "Err" THEN "reported" ELSE fault[r]]
           /\ items' = [items EXCEPT ![r] =
                   IF outcome = "Item" THEN Append(items[r], IoError) ELSE items[r]]
           /\ polls' = [polls EXCEPT ![r] = Append(polls[r], outcome)]
           /\ phase' = [phase EXCEPT ![r] = IF outcome = "Panic" THEN "poll_panic" ELSE "stream"]
           /\ waker' = [waker EXCEPT ![r] = waker[r] \/ read.poll = "Pending"]
           /\ woken' = [woken EXCEPT ![r] = outcome = "Item"]
    /\ UNCHANGED <<gvars, srcHeader, srcBody, cut, chunks, closed>>

StreamNext ==
    \/ \E r \in Runs : SourceDeliver(r)
    \/ \E r \in Runs : SourceClose(r)
    \/ \E r \in Runs : SourceError(r)
    \/ \E r \in Runs : New(r)
    \/ \E r \in Runs : TestResults(r)
    \/ \E r \in Runs : PollNext(r)

Streaming == StreamInit /\ [][StreamNext]_vars

(***************************************************************************)
(* Claims about the stream (specification Streaming)                       *)
(***************************************************************************)
\* poll_next returned Pending without the source holding a waker: nothing
\* will schedule the task again
Stalled(r) == phase[r] = "stream" /\ ~woken[r] /\ ~waker[r]

\* the run takes no further step
Finished(r) == Over(r) \/ Stalled(r)

HandshakeDone(r) == phase[r] \in {"parser", "stream", "poll_panic"}

RecordItems(r) == SelectSeq(items[r], LAMBDA i : i.kind = "Ok")

TruncatedStream == [kind |-> "Err", err |-> "TruncatedStream"]

C2_TruncatedStream ==
    \A r \in Runs :
        (srcHeader = VersionLine /\ srcBody \in TruncatedBodies /\ fault[r] = "none")
            => /\ phase[r] # "poll_panic"
               /\ Finished(r) => items[r] = <<TruncatedStream>>

\* C3: once the source has delivered all the bytes of a well-formed test
\* point, in however many reads, the pulls yield its record: the run does not
\* end before it has, the task is not left pending with nothing to wake it,
\* and no error item is yielded.
C3_IncompleteRetries ==
    \A r \in Runs :
        (srcHeader = VersionLine /\ srcBody \in ValidBodies /\ fault[r] = "none")
            => /\ ~Stalled(r)
               /\ Len(RecordItems(r)) = Len(items[r])
               /\ Finished(r) => Len(RecordItems(r)) >= 1

\* C4: Parser::new returns a Parser only if the first line of the source is
\* exactly "TAP Version 14\n"; after any other first line no ResultStream is
\* built and nothing is polled or yielded.
C4_VersionGate ==
    \A r \in Runs :
        /\ HandshakeDone(r) => StartsWith(srcHeader \o srcBody, VersionLine)
        /\ ~StartsWith(srcHeader \o srcBody, VersionLine)
               => items[r] = <<>> /\ polls[r] = <<>> /\ buffer[r] = <<>>

\* Parser::new unwound on "TAP Version 13\n" in both runs
C4_Witness ==
    /\ srcHeader = [VersionLine EXCEPT ![14] = "3"]
    /\ srcBody = OkLine
    /\ \A r \in Runs : phase[r] = "new_panic"

(***************************************************************************)
(* Claims about the line grammar (specification Grammar)                   *)
(***************************************************************************)
\* the prefix of the slice the rule consumed
Consumed == Take(input, Len(input) - Len(result.rem))

\* C5: for a buffer of two consecutive well-formed test point lines L1 L2,
\* parse_test_points returns exactly two records, the record of L1 parsed
\* alone and then the record of L2 parsed alone.
C5_GreedyRepetition ==
    Returned("test_points") =>
        /\ result.tag = "Ok"
        /\ result.val = <<parse_test_point(LineText(parts[1])).val,
                          parse_test_point(LineText(parts[2])).val>>

\* C6: the description parse_description captures never contains a newline
\* and never extends past the end of its own line.
C6_DescriptionBoundary ==
    (Returned("description") /\ result.tag = "Ok") =>
        /\ ~Contains(result.val, "\n")
        /\ ~Contains(Consumed, "\n")

\* C7: a test point line followed by a block "  ---\n" .. "  ...\n" parses to
\* a TestPoint whose yaml is Some(the interior, verbatim), the closing marker
\* line being consumed (what follows the block is the remaining slice).
C7_YamlCapture ==
    (Returned("test_point") /\ parts.yaml # None) =>
        /\ result.tag = "Ok"
        /\ result.val.yaml = parts.yaml
        /\ result.rem = parts.tail

\* C8: on a digit run that denotes a value above the largest usize,
\* parse_test_number reports a non-match (Err::Error) and does not panic.
C8_OverflowIsNoMatch ==
    (Returned("test_number") /\ ExceedsMax(parts.digits, UsizeMaxDigits)) =>
        result.tag = "Error"

\* The slices C9 is about: an optional " -", a space, some text, then " #",
\* and no newline anywhere; m is the length of the marker (0 or 2).
C9Form(s, m) ==
    /\ Len(s) >= m + 4
    /\ m = 2 => Take(s, 2) = <<" ", "-">>
    /\ s[m + 1] = " "
    /\ SubSeq(s, Len(s) - 1, Len(s)) = <<" ", "#">>
    /\ ~Contains(s, "\n")

C9AmendedForm(s, m) ==
    /\ C9Form(s, m)
    /\ s[m + 2] # " "
    /\ m = 0 => s[2] # "-"

C10Form(p) == p.sp2 = 0 => p.reason = <<>>

\* C10: on " #", spaces, todo or skip in any letter case, a non-whitespace run,
\* spaces, a reason and a newline, parse_directive returns Todo for todo and
\* Skip for skip, the reason trimmed and None when empty, and leaves "\n".
C10_Directive ==
    (Returned("directive") /\ C10Form(parts)) =>
        /\ result.tag = "Ok"
        /\ result.rem = <<"\n">>
        /\ result.val.kind = (IF parts.kw = <<"t", "o", "d", "o">> THEN "Todo" ELSE "Skip")
        /\ result.val.reason = (IF parts.reason = <<>> THEN None ELSE Some(parts.reason))

\* a legacy "SKipPED:" directive with a reason between spaces was parsed
C10_Witness ==
    /\ Returned("directive")
    /\ parts.kw = <<"s", "k", "i", "p">> /\ parts.mask = {1, 2, 4}
    /\ parts.noise = <<"P", "E", "D", ":">>
    /\ parts.sp2 = 2 /\ parts.sp3 = 1
    /\ parts.reason = <<"r", " ", "x">>
    /\ result.tag = "Ok"
    /\ result.val = Skip(Some(<<"r", " ", "x">>))
====
